---- MODULE Spec2Model ----
(***************************************************************************)
(* Session manager (AuthProvider) and API gateway (APIService + the axios  *)
(* interceptors) of the SmartLibrary front end, as one state machine.      *)
(*                                                                         *)
(* JavaScript values are tagged records, so that null, undefined, strings, *)
(* numbers, objects and arrays stay distinct and truthiness, String() and  *)
(* JSON.stringify / JSON.parse are computed as the runtime computes them.  *)
(***************************************************************************)
EXTENDS Integers, Sequences, FiniteSets, Bags, TLC

(* ---------------------------- bounds ---------------------------------- *)

\* number of login() and register() calls that may wait for their answer at
\* the same time
MaxSessionCalls == 2

\* number of direct gateway calls that may wait for their answer at the same
\* time
MaxGatewayCalls == 1

(* ------------------------- JavaScript values --------------------------- *)

Null == [type |-> "null"]
Undef == [type |-> "undefined"]
Str(s) == [type |-> "string", str |-> s]
Num(n) == [type |-> "number", num |-> n]
Arr(items) == [type |-> "array", items |-> items]
\* the userInfo object { username, role }
Obj(u, r) == [type |-> "object", username |-> u, role |-> r]
\* the login response body { token, username, role }
Payload(t, u, r) == [type |-> "object", token |-> t, username |-> u, role |-> r]

\* ToBoolean: what `if (v)`, `!!v` and `a || b` test
Truthy(v) ==
  CASE v.type = "null" -> FALSE
    [] v.type = "undefined" -> FALSE
    [] v.type = "string" -> v.str /= ""
    [] v.type = "number" -> v.num /= 0
    [] v.type = "boolean" -> v.bool
    [] OTHER -> TRUE

\* the statuses the modelled backend answers with
Statuses == {200, 400, 401, 500}

NumToString(n) ==
  CASE n = 0 -> "0"
    [] n = 200 -> "200"
    [] n = 400 -> "400"
    [] n = 401 -> "401"
    [] n = 500 -> "500"

RECURSIVE Join(_)
\* Array.prototype.join(',') of an array of strings
Join(items) ==
  IF items = <<>> THEN ""
  ELSE IF Len(items) = 1 THEN items[1]
  ELSE items[1] \o "," \o Join(Tail(items))

\* String(v): what localStorage.setItem and a template literal do to v
StringOf(v) ==
  CASE v.type = "null" -> "null"
    [] v.type = "undefined" -> "undefined"
    [] v.type = "string" -> v.str
    [] v.type = "number" -> NumToString(v.num)
    [] v.type = "array" -> Join(v.items)
    [] OTHER -> "[object Object]"

(* --------------------------- JSON, storage ----------------------------- *)

\* values a field of the login payload (and so of userInfo) takes
Usernames == {Str("alice")}
Roles == {Str("ROLE_USER"), Str("ROLE_ADMIN")}
FieldU == Usernames \cup {Undef}
FieldR == Roles \cup {Undef}
UserInfos == {Obj(u, r) : u \in FieldU, r \in FieldR}

\* JSON.stringify of { username, role }: undefined members are left out
JSONstringify(o) ==
  LET u == IF o.username = Undef THEN ""
           ELSE "\"username\":\"" \o o.username.str \o "\""
      r == IF o.role = Undef THEN ""
           ELSE "\"role\":\"" \o o.role.str \o "\""
      sep == IF u /= "" /\ r /= "" THEN "," ELSE ""
  IN "{" \o u \o sep \o r \o "}"

SyntaxError == [type |-> "throw", name |-> "SyntaxError"]

\* JSON.parse: the object whose text this is, the JSON scalars null and 0,
\* and a SyntaxError for any other text
JSONparse(s) ==
  IF \E o \in UserInfos : JSONstringify(o) = s
  THEN CHOOSE o \in UserInfos : JSONstringify(o) = s
  ELSE IF s = "null" THEN Null
  ELSE IF s = "0" THEN Num(0)
  ELSE SyntaxError

Keys == {"token", "userInfo"}

\* localStorage is a partial map from keys to strings
getItem(st, k) == IF k \in DOMAIN st THEN Str(st[k]) ELSE Null
setItem(st, k, v) == [x \in (DOMAIN st) \cup {k} |-> IF x = k THEN StringOf(v) ELSE st[x]]
removeItem(st, k) == [x \in (DOMAIN st) \ {k} |-> st[x]]

EmptyStorage == [x \in {} |-> ""]

(* ------------------------------ gateway -------------------------------- *)

\* the wrappers of APIService that answer `error.response?.data || <text>`
PlainOps ==
  {"login", "register", "getAvailableBooks", "searchBooks", "getBookById",
   "bookBook", "getUserBookings", "getActiveBookings", "returnBook",
   "sendChatMessage", "createBook", "updateBook", "deleteBook",
   "updateBookQuantity", "getUserById", "updateUser", "deleteUser",
   "adminReturnBook"}

\* the wrappers that build their error text with a template literal
TemplateOps == {"getAllBooks", "getAllUsers", "getAllBookings"}

\* post(endpoint, data) and get(endpoint): no try/catch
GenericOps == {"post", "get"}

GatewayOps == PlainOps \cup TemplateOps \cup GenericOps

\* the wrappers whose failure result carries `data: []`
DataOnFailureOps ==
  {"getAvailableBooks", "searchBooks", "getUserBookings", "getActiveBookings",
   "getAllBooks", "getAllUsers", "getAllBookings"}

\* the fixed text of each wrapper
Fallback(op) ==
  CASE op = "login" -> "Login failed"
    [] op = "register" -> "Registration failed"
    [] op = "getAvailableBooks" -> "Failed to fetch books"
    [] op = "searchBooks" -> "Search failed"
    [] op = "getBookById" -> "Failed to fetch book details"
    [] op = "bookBook" -> "Failed to book the book"
    [] op = "getUserBookings" -> "Failed to fetch bookings"
    [] op = "getActiveBookings" -> "Failed to fetch active bookings"
    [] op = "returnBook" -> "Failed to return book"
    [] op = "sendChatMessage" -> "Failed to send message"
    [] op = "getAllBooks" -> "Failed to fetch all books"
    [] op = "createBook" -> "Failed to create book"
    [] op = "updateBook" -> "Failed to update book"
    [] op = "deleteBook" -> "Failed to delete book"
    [] op = "updateBookQuantity" -> "Failed to update book quantity"
    [] op = "getAllUsers" -> "Failed to fetch users"
    [] op = "getUserById" -> "Failed to fetch user"
    [] op = "updateUser" -> "Failed to update user"
    [] op = "deleteUser" -> "Failed to delete user"
    [] op = "getAllBookings" -> "Failed to fetch bookings"
    [] op = "adminReturnBook" -> "Failed to return book"
    [] OTHER -> ""

\* request interceptor without the `if (token)` test
RequestInterceptorAlways(st) == Str("Bearer " \o StringOf(getItem(st, "token")))

\* request interceptor: the Authorization header put on the request, Undef
\* when none is set
RequestInterceptor(st) ==
  LET t == getItem(st, "token")
  IN IF Truthy(t) THEN Str("Bearer " \o StringOf(t)) ELSE Undef

(* What the HTTP client hands back.  A response with a 2xx status fulfils   *)
(* the request promise; any other status, and a request that got no        *)
(* response (timeout, network failure, body that cannot be decoded),       *)
(* rejects it with an error that has `response` only in the first case.    *)
Response(status, data) ==
  [fulfilled |-> status = 200, response |-> TRUE, status |-> Num(status),
   data |-> data, message |-> "Request failed with status code " \o NumToString(status)]
NoResponse(message) ==
  [fulfilled |-> FALSE, response |-> FALSE, status |-> Undef,
   data |-> Undef, message |-> message]

Tokens == {Str("t1"), Str("t2"), Str("")}

\* bodies of a 200 answer to POST /api/auth/login: the documented payload,
\* an object without the three members, and a null body
LoginBodies ==
  {Payload(t, u, r) : t \in Tokens, u \in Usernames, r \in Roles}
    \cup {Payload(Undef, Undef, Undef), Null}

\* bodies of a 200 answer to the other requests
Bodies(op) ==
  IF op = "login" THEN LoginBodies
  ELSE IF op \in DataOnFailureOps THEN {Arr(<<"b1", "b2">>)}
  ELSE {Str("OK")}

\* bodies of an error answer: a server text, or nothing
ErrorBodies == {Str("invalid admin key"), Str("")}

Failures ==
  {Response(s, d) : s \in Statuses \ {200}, d \in ErrorBodies}
    \cup {NoResponse(m) : m \in {"timeout of 10000ms exceeded", "Network Error",
                                  "Unexpected token < in JSON at position 0"}}

Outcomes(op) == {Response(200, d) : d \in Bodies(op)} \cup Failures

\* error.response?.status and error.response?.data
ErrStatus(o) == IF o.response THEN o.status ELSE Undef
ErrData(o) == IF o.response THEN o.data ELSE Undef

\* a || b
Or(a, b) == IF Truthy(a) THEN a ELSE b

\* the value a gateway call settles with
Resolved(success, data, error) ==
  [settled |-> "resolved", success |-> success, data |-> data, error |-> error]
Rejected == [settled |-> "rejected", success |-> Undef, data |-> Undef, error |-> Undef]

True == [type |-> "boolean", bool |-> TRUE]
False == [type |-> "boolean", bool |-> FALSE]

\* catch block of a wrapper: the error member of its result
ErrorOf(op, o) ==
  IF op \in TemplateOps
  THEN Str(Fallback(op) \o ": " \o StringOf(ErrStatus(o)) \o " "
             \o StringOf(Or(ErrData(o), Str(o.message))))
  ELSE Or(ErrData(o), Str(Fallback(op)))

\* catch block without the data member
DataOfNone(op) == Undef

\* catch block of a wrapper: the data member of its result
DataOf(op) == IF op \in DataOnFailureOps THEN Arr(<<>>) ELSE Undef

\* one method of APIService, given what the HTTP client handed back
Wrapper(op, o) ==
  IF op \in GenericOps
  THEN IF o.fulfilled THEN Resolved(Undef, o.data, Undef) ELSE Rejected
  ELSE IF o.fulfilled THEN Resolved(True, o.data, Undef)
  ELSE Resolved(False, DataOf(op), ErrorOf(op, o))

(* ------------------------ text typed into forms ------------------------ *)

\* A text the user types is a sequence of characters, so that trim(),
\* length and the regular expressions are computed and not assumed.
MaxInputLen == 3
Chars == {" ", "a"}
Texts == UNION {[1..n -> Chars] : n \in 0..MaxInputLen}

\* String.prototype.trim()
RECURSIVE trim(_)
trim(s) ==
  IF s = <<>> THEN <<>>
  ELSE IF Head(s) = " " THEN trim(Tail(s))
  ELSE IF s[Len(s)] = " " THEN trim(SubSeq(s, 1, Len(s) - 1))
  ELSE s

\* /^[a-zA-Z0-9_]+$/.test(s)
WordChars == {"a", "b", "c", "k", "_", "0"}
IsWord(s) == s /= <<>> /\ \A i \in 1..Len(s) : s[i] \in WordChars

\* /^[^\s@]+@[^\s@]+\.[^\s@]+$/.test(s)
IsEmail(s) ==
  \E i \in 2..Len(s) : \E j \in (i + 2)..(Len(s) - 1) :
     /\ s[i] = "@"
     /\ s[j] = "."
     /\ \A k \in 1..Len(s) : k /= i => s[k] \notin {" ", "@"}

\* the Login screen as it mounts
LoginInitial ==
  [screen |-> "login", username |-> <<>>, password |-> <<>>, error |-> "",
   isSubmitting |-> FALSE, passed |-> <<>>]

\* what the user can type or say into the search field
SearchTerms == {<<>>, <<" ">>, <<"a">>}

\* the BookSearch screen before it mounts: the useState initial values.
\* `issued` counts the list requests the screen has sent and `source` is
\* the number of the request whose answer set `books`.
BookSearchInitial ==
  [mounted |-> FALSE, searchTerm |-> <<>>, books |-> Arr(<<>>), loading |-> FALSE,
   hasSearched |-> FALSE, error |-> Str(""),
   bookingLoading |-> FALSE, successMessage |-> "", isListening |-> FALSE,
   timers |-> {}, issued |-> 0, source |-> 0]

\* the Dashboard screen before it mounts
DashboardInitial ==
  [mounted |-> FALSE, deps |-> <<Null, Null>>, availableBooks |-> Arr(<<>>),
   loading |-> TRUE, error |-> "", alert |-> ""]

\* the AdminPanel screen before it mounts
AdminPanelInitial ==
  [mounted |-> FALSE, deps |-> <<Null, Null>>, books |-> Arr(<<>>), loading |-> TRUE,
   error |-> "", successMessage |-> "", fetches |-> 0, gathered |-> {}]

(* -------------------------- session manager ---------------------------- *)

VARIABLES
  storage,        \* localStorage: partial map from Keys to strings
  token,          \* useState: the in-memory token
  currentUser,    \* useState: the in-memory user
  loading,        \* useState: the loading flag
  effectPending,  \* the effect with dependency [token] is scheduled
  inflight,       \* bag of the gateway requests that wait for their answer
  navPending,     \* window.location.href was assigned, the page is not yet replaced
  last,           \* the step just taken: what was called, sent, answered, returned
  form,           \* the Login or Register screen: its useState values
  route,          \* the path the router shows
  bookSearch,     \* the BookSearch screen: its useState values
  dashboard,      \* the Dashboard screen: its useState values
  adminPanel      \* the AdminPanel screen: its useState values

\* the screens behind the router, which the two forms never touch
routed == <<route, bookSearch, dashboard, adminPanel>>

\* the state of the screens, which the session manager never touches
screens == <<form, route, bookSearch, dashboard, adminPanel>>

vars == <<storage, token, currentUser, loading, effectPending, inflight, navPending, last,
          form, route, bookSearch, dashboard, adminPanel>>

(* A step is one run of JavaScript to completion: a call up to its await,  *)
(* or the arrival of an answer with everything chained to it (response     *)
(* interceptor, catch block of the wrapper, rest of login or register),    *)
(* followed by the render of the state it set.  The effect scheduled by a  *)
(* render runs before React renders any later update, so while it is       *)
(* pending no other step of the application is taken.  Snapshots in `last` *)
(* are taken when the step starts: what they are compared with is what     *)
(* this step changed, not what other calls changed while a request waited. *)

\* isLoggedIn() written with || in place of &&
isLoggedInEither == Truthy(token) \/ Truthy(currentUser)

\* isLoggedIn() over the rendered state
isLoggedIn == Truthy(token) /\ Truthy(currentUser)

\* v?.name and the members a destructuring reads: undefined when v has none
Member(v, name) ==
  IF v.type = "object" /\ name \in DOMAIN v THEN v[name] ELSE Undef

\* a provider that renders its children in every state
childrenRenderedAlways == TRUE

\* the provider's render: {!loading && children}
childrenRendered == ~loading

\* isAdmin() that accepts every user
isAdminAnyUser == Truthy(currentUser)

\* isAdmin(): currentUser?.role === 'ROLE_ADMIN'
isAdmin == Member(currentUser, "role") = Str("ROLE_ADMIN")

\* isUser(): currentUser?.role === 'ROLE_USER'
isUser == Member(currentUser, "role") = Str("ROLE_USER")

\* getUserDisplayName(): currentUser?.username || 'Guest'
getUserDisplayName == Or(Member(currentUser, "username"), Str("Guest"))

\* what a step leaves in `last`
Event(ev, op, via, hdr, outcome, gw, ret, navs, before) ==
  [ev |-> ev, op |-> op, via |-> via, hdr |-> hdr, outcome |-> outcome,
   gw |-> gw, ret |-> ret, navs |-> navs, before |-> before]
\* storage and the in-memory session as the step found them
Snapshot == [storage |-> storage, token |-> token, currentUser |-> currentUser]
NoSnapshot == [storage |-> EmptyStorage, token |-> Undef, currentUser |-> Undef]
NoOutcome == NoResponse("")
NoResult == [settled |-> "none", success |-> Undef, data |-> Undef, error |-> Undef]

\* what localStorage holds when the page is first loaded: every key absent,
\* or holding a token, an empty string, a userInfo text that login wrote,
\* the JSON texts null and 0, or a text that is not JSON
InitialTokens == {"t1", ""}
InitialBlobs ==
  {JSONstringify(Obj(Str("alice"), Str("ROLE_USER"))),
   JSONstringify(Obj(Str("alice"), Str("ROLE_ADMIN"))),
   "null", "0", "{bad", ""}
InitialStorages ==
  {[k \in D |-> IF k = "token" THEN t ELSE b] :
     D \in SUBSET Keys, t \in InitialTokens, b \in InitialBlobs}

\* AuthProvider whose token state starts as null
MountNoToken(st) ==
  /\ token' = Null
  /\ currentUser' = Null
  /\ loading' = TRUE
  /\ effectPending' = TRUE
  /\ inflight' = EmptyBag
  /\ navPending' = FALSE

\* AuthProvider is mounted: the three useState initial values, and the
\* effect scheduled for after the first render
Mount(st) ==
  /\ token' = getItem(st, "token")
  /\ currentUser' = Null
  /\ loading' = TRUE
  /\ effectPending' = TRUE
  /\ inflight' = EmptyBag
  /\ navPending' = FALSE

\* the provider as the page loads
SessionInit ==
  /\ storage \in InitialStorages
  /\ token = getItem(storage, "token")
  /\ currentUser = Null
  /\ loading = TRUE
  /\ effectPending = TRUE
  /\ inflight = EmptyBag
  /\ navPending = FALSE
  /\ last = Event("mount", "-", "-", Undef, NoOutcome, NoResult, NoResult, 0, NoSnapshot)

\* the screens as the page loads on path r: none has mounted yet
ScreensInit(r) ==
  /\ form = LoginInitial
  /\ route = r
  /\ bookSearch = BookSearchInitial
  /\ dashboard = DashboardInitial
  /\ adminPanel = AdminPanelInitial

Init ==
  /\ SessionInit
  /\ ScreensInit("/login")

\* which run of the effect this is: the one after the mount, or a later one.
\* Only the effect and a reload can follow a mount.
EffectRun == IF last.ev = "mount" THEN "first" ELSE "rerun"

\* logout() that leaves the userInfo key in storage
logoutTokenOnly(st) ==
  [storage |-> removeItem(st, "token"), token |-> Null, currentUser |-> Null]

\* logout() that removes one key per call
logoutOneKey(st) ==
  [storage |-> IF "token" \in DOMAIN st THEN removeItem(st, "token")
               ELSE removeItem(st, "userInfo"),
   token |-> Null, currentUser |-> Null]

\* the state logout() leaves: [storage, token, currentUser]
logout(st) ==
  [storage |-> removeItem(removeItem(st, "token"), "userInfo"),
   token |-> Null, currentUser |-> Null]

\* initializeAuth() whose catch block does not call logout()
initializeAuthNoTeardown ==
  /\ effectPending
  /\ LET userInfo == getItem(storage, "userInfo")
         parsedUser == JSONparse(userInfo.str)
     IN IF Truthy(token) /\ Truthy(userInfo) /\ parsedUser /= SyntaxError
        THEN currentUser' = parsedUser
        ELSE UNCHANGED currentUser
  /\ loading' = FALSE
  /\ effectPending' = FALSE
  /\ last' = Event("hydrate", EffectRun, "-", Undef, NoOutcome, NoResult, NoResult,
                   IF last.ev = "mount" THEN last.navs ELSE 0, Snapshot)
  /\ UNCHANGED <<storage, token, inflight, navPending>>

\* initializeAuth() without its finally block
initializeAuthNoFinally ==
  /\ effectPending
  /\ LET userInfo == getItem(storage, "userInfo")
         parsedUser == JSONparse(userInfo.str)
     IN IF Truthy(token) /\ Truthy(userInfo)
        THEN IF parsedUser = SyntaxError
             THEN /\ storage' = logout(storage).storage
                  /\ token' = logout(storage).token
                  /\ currentUser' = logout(storage).currentUser
             ELSE /\ currentUser' = parsedUser
                  /\ UNCHANGED <<storage, token>>
        ELSE UNCHANGED <<storage, token, currentUser>>
  /\ effectPending' = (token' /= token)
  /\ last' = Event("hydrate", EffectRun, "-", Undef, NoOutcome, NoResult, NoResult,
                   IF last.ev = "mount" THEN last.navs ELSE 0, Snapshot)
  /\ UNCHANGED <<loading, inflight, navPending>>

\* the effect body: initializeAuth(), run after the first render and after
\* every render in which token changed
initializeAuth ==
  /\ effectPending
  /\ LET userInfo == getItem(storage, "userInfo")
         parsedUser == JSONparse(userInfo.str)
     IN IF Truthy(token) /\ Truthy(userInfo)
        THEN IF parsedUser = SyntaxError
             THEN /\ storage' = logout(storage).storage
                  /\ token' = logout(storage).token
                  /\ currentUser' = logout(storage).currentUser
             ELSE /\ currentUser' = parsedUser
                  /\ UNCHANGED <<storage, token>>
        ELSE UNCHANGED <<storage, token, currentUser>>
  /\ loading' = FALSE
  /\ effectPending' = (token' /= token)
  /\ last' = Event("hydrate", EffectRun, "-", Undef, NoOutcome, NoResult, NoResult,
                   IF last.ev = "mount" THEN last.navs ELSE 0, Snapshot)
  /\ UNCHANGED <<inflight, navPending>>

\* logout() called by a consumer of the context
Logout ==
  /\ ~effectPending
  /\ storage' = logout(storage).storage
  /\ token' = logout(storage).token
  /\ currentUser' = logout(storage).currentUser
  /\ effectPending' = (token' /= token)
  /\ last' = Event("logout", "-", "logout", Undef, NoOutcome, NoResult, NoResult, 0, Snapshot)
  /\ UNCHANGED <<loading, inflight, navPending>>

\* number of waiting requests made directly (direct) or by login/register
InFlight(direct) ==
  LET D == {c \in DOMAIN inflight : (c.via = "gateway") = direct}
  IN BagCardinality([c \in D |-> inflight[c]])

\* a request leaves through the request interceptor
Send(op, via) ==
  /\ InFlight(via = "gateway") < (IF via = "gateway" THEN MaxGatewayCalls ELSE MaxSessionCalls)
  /\ inflight' = inflight (+) SetToBag({[op |-> op, via |-> via]})
  /\ last' = Event("send", op, via, RequestInterceptor(storage), NoOutcome,
                   NoResult, NoResult, 0, NoSnapshot)

\* login() without setLoading(true)
LoginCallNoLoading ==
  /\ ~effectPending
  /\ Send("login", "login")
  /\ UNCHANGED <<storage, token, currentUser, loading, effectPending, navPending>>

\* login(username, password) up to its await
LoginCall ==
  /\ ~effectPending
  /\ loading' = TRUE
  /\ Send("login", "login")
  /\ UNCHANGED <<storage, token, currentUser, effectPending, navPending>>

UnexpectedLogin == Resolved(False, Undef, Str("An unexpected error occurred during login"))
UnexpectedRegister == Resolved(False, Undef, Str("An unexpected error occurred during registration"))
SuccessOnly == Resolved(True, Undef, Undef)

\* register(userData) up to its await, userData an object
RegisterCall ==
  /\ ~effectPending
  /\ loading' = TRUE
  /\ Send("register", "register")
  /\ UNCHANGED <<storage, token, currentUser, effectPending, navPending>>

\* register(userData) with userData null or undefined: `userData.adminKey`
\* throws inside the try, before any request
RegisterThrow ==
  /\ ~effectPending
  /\ loading' = FALSE
  /\ last' = Event("return", "-", "register", Undef, NoOutcome, NoResult,
                   UnexpectedRegister, 0, Snapshot)
  /\ UNCHANGED <<storage, token, currentUser, effectPending, inflight, navPending>>

\* a component, or any other holder of apiService, calls a gateway method
GatewayCall(op) ==
  /\ ~effectPending
  /\ Send(op, "gateway")
  /\ UNCHANGED <<storage, token, currentUser, loading, effectPending, navPending>>

\* response interceptor that evicts on every error response
ResponseInterceptorAnyStatus(st, o) ==
  IF o.fulfilled \/ ~o.response THEN [storage |-> st, navs |-> 0]
  ELSE [storage |-> removeItem(removeItem(st, "token"), "userInfo"), navs |-> 1]

\* response interceptor that removes the token key only
ResponseInterceptorTokenOnly(st, o) ==
  IF o.fulfilled THEN [storage |-> st, navs |-> 0]
  ELSE IF ErrStatus(o) = Num(401)
  THEN [storage |-> removeItem(st, "token"), navs |-> 1]
  ELSE [storage |-> st, navs |-> 0]

\* response interceptor: the storage it leaves, and how many times it
\* assigned window.location.href
ResponseInterceptor(st, o) ==
  IF o.fulfilled THEN [storage |-> st, navs |-> 0]
  ELSE IF ErrStatus(o) = Num(401)
  THEN [storage |-> removeItem(removeItem(st, "token"), "userInfo"), navs |-> 1]
  ELSE [storage |-> st, navs |-> 0]

\* login() that does not store userInfo
loginAfterTokenOnly(result, st) ==
  IF result.settled = "rejected" \/ (Truthy(result.success) /\ result.data \in {Null, Undef})
  THEN [storage |-> st, token |-> token, currentUser |-> currentUser,
        ret |-> UnexpectedLogin]
  ELSE IF Truthy(result.success)
  THEN [storage |-> setItem(st, "token", Member(result.data, "token")),
        token |-> Member(result.data, "token"),
        currentUser |-> Obj(Member(result.data, "username"), Member(result.data, "role")),
        ret |-> SuccessOnly]
  ELSE [storage |-> st, token |-> token, currentUser |-> currentUser, ret |-> result]

\* login() that drops the in-memory session when the gateway reports failure
loginAfterResetsOnFailure(result, st) ==
  IF result.settled = "rejected" \/ (Truthy(result.success) /\ result.data \in {Null, Undef})
  THEN [storage |-> st, token |-> token, currentUser |-> currentUser,
        ret |-> UnexpectedLogin]
  ELSE IF Truthy(result.success)
  THEN [storage |-> setItem(setItem(st, "token", Member(result.data, "token")), "userInfo",
                            Str(JSONstringify(Obj(Member(result.data, "username"),
                                                  Member(result.data, "role"))))),
        token |-> Member(result.data, "token"),
        currentUser |-> Obj(Member(result.data, "username"), Member(result.data, "role")),
        ret |-> SuccessOnly]
  ELSE [storage |-> st, token |-> Null, currentUser |-> Null, ret |-> result]

\* login() whose catch block tears the session down
loginAfterTeardownOnThrow(result, st) ==
  IF result.settled = "rejected" \/ (Truthy(result.success) /\ result.data \in {Null, Undef})
  THEN [storage |-> logout(st).storage, token |-> Null, currentUser |-> Null,
        ret |-> UnexpectedLogin]
  ELSE IF Truthy(result.success)
  THEN [storage |-> setItem(setItem(st, "token", Member(result.data, "token")), "userInfo",
                            Str(JSONstringify(Obj(Member(result.data, "username"),
                                                  Member(result.data, "role"))))),
        token |-> Member(result.data, "token"),
        currentUser |-> Obj(Member(result.data, "username"), Member(result.data, "role")),
        ret |-> SuccessOnly]
  ELSE [storage |-> st, token |-> token, currentUser |-> currentUser, ret |-> result]

\* login() that gives way to a logout made while it waited
loginAfterYieldsToLogout(result, st) ==
  IF result.settled = "rejected" \/ (Truthy(result.success) /\ result.data \in {Null, Undef})
  THEN [storage |-> st, token |-> token, currentUser |-> currentUser,
        ret |-> UnexpectedLogin]
  ELSE IF Truthy(result.success) /\ (token /= Null \/ DOMAIN st /= {})
  THEN [storage |-> setItem(setItem(st, "token", Member(result.data, "token")), "userInfo",
                            Str(JSONstringify(Obj(Member(result.data, "username"),
                                                  Member(result.data, "role"))))),
        token |-> Member(result.data, "token"),
        currentUser |-> Obj(Member(result.data, "username"), Member(result.data, "role")),
        ret |-> SuccessOnly]
  ELSE [storage |-> st, token |-> token, currentUser |-> currentUser, ret |-> result]

\* login() from its await on: [storage, token, currentUser, ret]
loginAfter(result, st) ==
  IF result.settled = "rejected"
  THEN [storage |-> st, token |-> token, currentUser |-> currentUser,
        ret |-> UnexpectedLogin]
  ELSE IF Truthy(result.success)
  THEN IF result.data \in {Null, Undef}
       THEN [storage |-> st, token |-> token, currentUser |-> currentUser,
             ret |-> UnexpectedLogin]
       ELSE LET tok == Member(result.data, "token")
                userInfo == Obj(Member(result.data, "username"),
                                Member(result.data, "role"))
            IN [storage |-> setItem(setItem(st, "token", tok), "userInfo",
                                    Str(JSONstringify(userInfo))),
                token |-> tok, currentUser |-> userInfo, ret |-> SuccessOnly]
  ELSE [storage |-> st, token |-> token, currentUser |-> currentUser,
        ret |-> result]

\* register() that returns the gateway result on success too
registerAfterPassThrough(result) ==
  IF result.settled = "rejected" THEN UnexpectedRegister ELSE result

\* register() from its await on: its return value
registerAfter(result) ==
  IF result.settled = "rejected" THEN UnexpectedRegister
  ELSE IF Truthy(result.success) THEN SuccessOnly
  ELSE result

\* the answer to a request arrives: response interceptor, then the wrapper,
\* then the rest of login() or register() when one of them awaited it
Settle(c, o) ==
  /\ ~effectPending
  /\ BagIn(c, inflight)
  /\ o \in Outcomes(c.op)
  /\ inflight' = inflight (-) SetToBag({c})
  /\ navPending' = (navPending \/ ResponseInterceptor(storage, o).navs > 0)
  /\ LET st == ResponseInterceptor(storage, o).storage
         navs == ResponseInterceptor(storage, o).navs
         gw == Wrapper(c.op, o)
     IN CASE c.via = "login" ->
               /\ storage' = loginAfter(gw, st).storage
               /\ token' = loginAfter(gw, st).token
               /\ currentUser' = loginAfter(gw, st).currentUser
               /\ loading' = FALSE
               /\ last' = Event("settle", c.op, c.via, Undef, o, gw,
                                loginAfter(gw, st).ret, navs, Snapshot)
          [] c.via = "register" ->
               /\ storage' = st
               /\ loading' = FALSE
               /\ last' = Event("settle", c.op, c.via, Undef, o, gw,
                                registerAfter(gw), navs, Snapshot)
               /\ UNCHANGED <<token, currentUser>>
          [] OTHER ->
               /\ storage' = st
               /\ last' = Event("settle", c.op, c.via, Undef, o, gw, NoResult, navs, Snapshot)
               /\ UNCHANGED <<token, currentUser, loading>>
  /\ effectPending' = (token' /= token)

\* the page is loaded again: the navigation to /login completes, or the
\* user reloads; storage survives, everything in memory starts over
Reload ==
  /\ Mount(storage)
  /\ last' = Event("mount", "-", "-", Undef, NoOutcome, NoResult, NoResult,
                   IF navPending THEN 1 ELSE 0, NoSnapshot)
  /\ UNCHANGED storage

\* a consumer of the context calls the four predicates while it renders
ReadSession ==
  /\ ~effectPending
  /\ last' = Event("read", "-", "-", Undef, NoOutcome, NoResult,
                   [isAdmin |-> isAdmin, isUser |-> isUser, isLoggedIn |-> isLoggedIn,
                    getUserDisplayName |-> getUserDisplayName],
                   0, Snapshot)
  /\ UNCHANGED <<storage, token, currentUser, loading, effectPending, inflight, navPending>>

\* the requests the public screens send next to the session calls: the book
\* list of the search screen and its booking request
TrafficOps == {"getAvailableBooks", "bookBook"}

\* the session manager, with the traffic of the screens around it
Next ==
  \/ initializeAuth /\ UNCHANGED screens
  \/ Logout /\ UNCHANGED screens
  \/ LoginCall /\ UNCHANGED screens
  \/ RegisterCall /\ UNCHANGED screens
  \/ RegisterThrow /\ UNCHANGED screens
  \/ \E op \in TrafficOps : GatewayCall(op) /\ UNCHANGED screens
  \/ \E c \in DOMAIN inflight : \E o \in Outcomes(c.op) : Settle(c, o) /\ UNCHANGED screens
  \/ Reload /\ UNCHANGED screens
  \/ ReadSession /\ UNCHANGED screens

Spec == Init /\ [][Next]_vars

\* React runs a scheduled effect after the render that scheduled it: the
\* effect cannot stay pending for ever
SpecFair == Spec /\ WF_vars(initializeAuth /\ UNCHANGED screens)

\* the gateway alone: every method of APIService called directly
NextGateway ==
  \/ initializeAuth /\ UNCHANGED screens
  \/ \E op \in GatewayOps : GatewayCall(op) /\ UNCHANGED screens
  \/ \E c \in DOMAIN inflight : \E o \in Outcomes(c.op) : Settle(c, o) /\ UNCHANGED screens
  \/ Reload /\ UNCHANGED screens

SpecGateway == Init /\ [][NextGateway]_vars

(* ------------------------ Login and Register screens -------------------- *)
(* The provider renders its children only while loading is false, so a     *)
(* screen is unmounted when login() or register() sets loading and mounts  *)
(* again, with its initial useState values, when loading is cleared: what  *)
(* handleSubmit sets after its await is set on the unmounted instance and  *)
(* is lost.  `passed` is what the screen handed to the session manager in  *)
(* the call that is in flight.                                             *)

\* the Register screen as it mounts
RegisterInitial ==
  [screen |-> "register", username |-> <<>>, password |-> <<>>, email |-> <<>>,
   role |-> "USER", adminKey |-> <<>>,
   errors |-> [username |-> "", password |-> "", email |-> "", adminKey |-> ""],
   isSubmitting |-> FALSE, passed |-> <<>>]

\* the screen behind the route '/'
Home == [screen |-> "home", passed |-> <<>>]

\* what the user can type into the fields
LoginPasswords == {<<>>, <<" ">>, <<"a">>}
RegisterUsernames == {<<>>, <<"a", "a">>, <<"a", " ", "a">>, <<"a", "a", "a">>}
RegisterPasswords == {<<>>, <<"a", "a", "a", "a", "a">>, <<"a", "a", "a", "a", "a", "a">>}
Emails == {<<>>, <<"a", "@", "b">>, <<"a", "@", "b", ".", "c">>}
AdminKeys == {<<" ">>, <<"k">>}
LoginFields == [username : Texts] \cup [password : LoginPasswords]
RegisterFields ==
  [username : RegisterUsernames] \cup [password : RegisterPasswords] \cup [email : Emails]
    \cup [role : {"USER", "ADMIN"}] \cup [adminKey : AdminKeys]

\* the name and the value of the field an input event carries
FieldName(e) == CHOOSE n \in DOMAIN e : TRUE
FieldValue(e) == e[FieldName(e)]

\* the screens are rendered, and their handlers can run
Rendered == ~loading /\ ~effectPending

\* the user typed or followed a link: no call, no request
Input(screen) ==
  /\ last' = Event("input", "-", screen, Undef, NoOutcome, NoResult, NoResult, 0, NoSnapshot)
  /\ UNCHANGED <<storage, token, currentUser, loading, effectPending, inflight, navPending>>

\* the effect of both screens: a logged-in user is sent to '/'
RedirectLoggedIn(f, loggedIn) ==
  IF f.screen \in {"login", "register"} /\ loggedIn THEN Home ELSE f

\* the user follows the link to the Login or to the Register screen
GoTo(screen) ==
  /\ Rendered
  /\ form.screen /= screen
  /\ form' = RedirectLoggedIn(IF screen = "login" THEN LoginInitial ELSE RegisterInitial,
                              isLoggedIn)
  /\ Input(screen)

\* Login.handleChange
LoginHandleChange(e) ==
  /\ Rendered
  /\ form.screen = "login"
  /\ form' = [form EXCEPT ![FieldName(e)] = FieldValue(e), !.error = "", !.passed = <<>>]
  /\ Input("login")

\* Login.validateForm: the error it sets, "" when it returns true
LoginValidateForm(f) ==
  IF trim(f.username) = <<>> THEN "Username is required"
  ELSE IF trim(f.password) = <<>> THEN "Password is required"
  ELSE IF Len(f.username) < 3 THEN "Username must be at least 3 characters"
  ELSE ""

\* Login.handleSubmit that does not validate
LoginHandleSubmitUnchecked ==
  /\ Rendered
  /\ form.screen = "login"
  /\ LoginCall
  /\ form' = [LoginInitial EXCEPT !.passed = <<trim(form.username), form.password>>]

\* Login.handleSubmit up to its await
LoginHandleSubmit ==
  /\ Rendered
  /\ form.screen = "login"
  /\ IF LoginValidateForm(form) /= ""
     THEN /\ form' = [form EXCEPT !.error = LoginValidateForm(form)]
          /\ last' = Event("rejected", "-", "login", Undef, NoOutcome, NoResult, NoResult,
                           0, Snapshot)
          /\ UNCHANGED <<storage, token, currentUser, loading, effectPending, inflight,
                         navPending>>
     ELSE /\ LoginCall
          /\ form' = [LoginInitial EXCEPT !.passed = <<trim(form.username), form.password>>]

\* Register.handleChange
RegisterHandleChange(e) ==
  /\ Rendered
  /\ form.screen = "register"
  /\ LET name == FieldName(e)
         typed == [form EXCEPT ![name] = FieldValue(e), !.passed = <<>>]
         cleared == IF name \in DOMAIN form.errors
                    THEN [typed EXCEPT !.errors[name] = ""] ELSE typed
     IN form' = IF name = "role" /\ FieldValue(e) = "USER"
                THEN [cleared EXCEPT !.adminKey = <<>>, !.errors.adminKey = ""]
                ELSE cleared
  /\ Input("register")

\* Register.validateForm: the errors it sets
RegisterValidateForm(f) ==
  [username |-> IF trim(f.username) = <<>> THEN "Username is required"
                ELSE IF Len(f.username) < 3 THEN "Username must be at least 3 characters"
                ELSE IF ~IsWord(f.username)
                THEN "Username can only contain letters, numbers, and underscores"
                ELSE "",
   password |-> IF f.password = <<>> THEN "Password is required"
                ELSE IF Len(f.password) < 6 THEN "Password must be at least 6 characters"
                ELSE "",
   email |-> IF f.email /= <<>> /\ ~IsEmail(f.email)
             THEN "Please enter a valid email address" ELSE "",
   adminKey |-> IF f.role = "ADMIN" /\ trim(f.adminKey) = <<>>
                THEN "Admin key is required for admin registration" ELSE ""]

\* Object.keys(newErrors).length === 0
NoErrors(errors) == \A n \in DOMAIN errors : errors[n] = ""

\* submitData of Register.handleSubmit
SubmitData(f) ==
  [username |-> trim(f.username), password |-> f.password, role |-> f.role,
   email |-> trim(f.email),
   adminKey |-> IF f.role = "ADMIN" THEN trim(f.adminKey) ELSE <<>>]

\* Register.handleSubmit up to its await
RegisterHandleSubmit ==
  /\ Rendered
  /\ form.screen = "register"
  /\ IF ~NoErrors(RegisterValidateForm(form))
     THEN /\ form' = [form EXCEPT !.errors = RegisterValidateForm(form)]
          /\ last' = Event("rejected", "-", "register", Undef, NoOutcome, NoResult, NoResult,
                           0, Snapshot)
          /\ UNCHANGED <<storage, token, currentUser, loading, effectPending, inflight,
                         navPending>>
     ELSE /\ RegisterCall
          /\ form' = [RegisterInitial EXCEPT !.passed = SubmitData(form)]

\* the answer to the request of a screen: Settle, then the rest of
\* handleSubmit, which navigates to '/' when login() reported success
FormSettle(c, o) ==
  /\ Settle(c, o)
  /\ form' = IF c.via = "login" /\ Truthy(last'.ret.success) THEN Home
             ELSE RedirectLoggedIn([form EXCEPT !.passed = <<>>], isLoggedIn')

\* the effect of the provider, then the effect of the screen it renders
FormHydrate ==
  /\ initializeAuth
  /\ form' = RedirectLoggedIn(form, isLoggedIn')

\* the Login and Register screens over the session manager
NextForms ==
  \/ FormHydrate /\ UNCHANGED routed
  \/ \E screen \in {"login", "register"} : GoTo(screen) /\ UNCHANGED routed
  \/ \E e \in LoginFields : LoginHandleChange(e) /\ UNCHANGED routed
  \/ LoginHandleSubmit /\ UNCHANGED routed
  \/ \E e \in RegisterFields : RegisterHandleChange(e) /\ UNCHANGED routed
  \/ RegisterHandleSubmit /\ UNCHANGED routed
  \/ \E c \in DOMAIN inflight : \E o \in Outcomes(c.op) : FormSettle(c, o) /\ UNCHANGED routed
  \/ Rendered /\ Logout /\ UNCHANGED screens

\* the application starts with no session stored, or with one
InitForms ==
  /\ Init
  /\ storage \in {EmptyStorage,
                  [token |-> "t1",
                   userInfo |-> JSONstringify(Obj(Str("alice"), Str("ROLE_ADMIN")))]}

SpecForms == InitForms /\ [][NextForms]_vars

(* --------------------------- BookSearch screen -------------------------- *)
(* A request of a screen is an entry of `inflight` that carries what its   *)
(* continuation closed over: the search term, and the number of the list   *)
(* request.  The answers a screen gets are a 200 and a 500 without body.   *)

MaxListRequests == 3

ScreenOutcomes(op) ==
  {o \in Outcomes(op) :
     \/ o.fulfilled
     \/ o.response /\ o.status = Num(500) /\ o.data = Str("")}
    \cup (IF op = "searchBooks" THEN {Response(200, Arr(<<>>))} ELSE {})

\* a request of a screen, with what the closure that awaits it holds: the
\* search term, the number of the list request, and the answers of the
\* session predicates of its render
Request(op, via, term, n) ==
  [op |-> op, via |-> via, term |-> term, n |-> n,
   loggedIn |-> isLoggedIn, admin |-> isAdmin]

\* the requests leave through the request interceptor
IssueAll(requests, op, via) ==
  /\ inflight' = inflight (+) SetToBag(requests)
  /\ last' = Event("send", op, via, RequestInterceptor(storage), NoOutcome,
                   NoResult, NoResult, 0, NoSnapshot)
  /\ UNCHANGED <<storage, token, currentUser, loading, effectPending, navPending>>

Issue(request) == IssueAll({request}, request.op, request.via)

\* number of waiting requests sent by the handlers in `vias`
Waiting(vias) ==
  LET D == {c \in DOMAIN inflight : c.via \in vias}
  IN BagCardinality([c \in D |-> inflight[c]])

\* what the effects of the screens depend on: the session predicates are
\* new functions whenever token or currentUser changed
Deps == <<token, currentUser>>

\* the answer to request c arrives: response interceptor and wrapper; the
\* continuation of the screen sends the requests in `following`
Answer(c, o, following) ==
  /\ ~effectPending
  /\ BagIn(c, inflight)
  /\ inflight' = (inflight (-) SetToBag({c})) (+) SetToBag(following)
  /\ storage' = ResponseInterceptor(storage, o).storage
  /\ navPending' = (navPending \/ ResponseInterceptor(storage, o).navs > 0)
  /\ last' = Event("settle", c.op, c.via, Undef, o, Wrapper(c.op, o), NoResult,
                   ResponseInterceptor(storage, o).navs, Snapshot)
  /\ UNCHANGED <<token, currentUser, loading, effectPending>>

\* a handler returned at once, after navigate(path) or with nothing to do
Returned(via) ==
  /\ last' = Event("return", "-", via, Undef, NoOutcome, NoResult, NoResult, 0, Snapshot)
  /\ UNCHANGED <<storage, token, currentUser, loading, effectPending, inflight, navPending>>

\* the list requests of the screen that wait for their answer
ListVias == {"BookSearch.fetchAllBooks", "BookSearch.performSearch"}
ListsInFlight == Waiting(ListVias)

\* fetchAllBooks() up to its await: the state it sets, the request it sends
fetchAllBooks(b) ==
  [screen |-> [b EXCEPT !.loading = TRUE, !.error = Str(""), !.issued = b.issued + 1],
   request |-> Request("getAvailableBooks", "BookSearch.fetchAllBooks", <<>>, b.issued + 1)]

\* performSearch(query) up to its await
performSearch(b, query) ==
  IF trim(query) = <<>>
  THEN [screen |-> [fetchAllBooks(b).screen EXCEPT !.hasSearched = FALSE],
        request |-> fetchAllBooks(b).request]
  ELSE [screen |-> [b EXCEPT !.loading = TRUE, !.error = Str(""), !.hasSearched = TRUE,
                             !.issued = b.issued + 1],
        request |-> Request("searchBooks", "BookSearch.performSearch", trim(query),
                            b.issued + 1)]

\* the screen is on display and its controls can be used
SearchShown == Rendered /\ route = "/search" /\ bookSearch.mounted

\* the effect of the mount: fetchAllBooks(), speech recognition set up
BookSearchMount ==
  /\ Rendered
  /\ route = "/search"
  /\ ~bookSearch.mounted
  /\ bookSearch' = [fetchAllBooks(bookSearch).screen EXCEPT !.mounted = TRUE]
  /\ Issue(fetchAllBooks(bookSearch).request)
  /\ UNCHANGED route

\* onChange of the search field, which is disabled while loading
SetSearchTerm(t) ==
  /\ SearchShown
  /\ ~bookSearch.loading
  /\ bookSearch' = [bookSearch EXCEPT !.searchTerm = t]
  /\ Input("BookSearch")
  /\ UNCHANGED route

\* handleSearch: the submit button is disabled while loading
handleSearch ==
  /\ SearchShown
  /\ ~bookSearch.loading
  /\ bookSearch.issued < MaxListRequests
  /\ bookSearch' = performSearch(bookSearch, bookSearch.searchTerm).screen
  /\ Issue(performSearch(bookSearch, bookSearch.searchTerm).request)
  /\ UNCHANGED route

\* startListening, with recognition.onstart: the button is disabled while
\* loading
startListening ==
  /\ SearchShown
  /\ ~bookSearch.loading
  /\ ~bookSearch.isListening
  /\ bookSearch' = [bookSearch EXCEPT !.isListening = TRUE, !.error = Str("")]
  /\ Input("BookSearch")
  /\ UNCHANGED route

\* what the speech recognition hears
Transcripts == {<<"a">>}

\* recognition.onresult: the transcript becomes the search term and a
\* timer is set for the search
onresult(transcript) ==
  /\ ~effectPending
  /\ bookSearch.isListening
  /\ bookSearch' = [bookSearch EXCEPT !.searchTerm = transcript, !.isListening = FALSE,
                                      !.timers = @ \cup {transcript}]
  /\ Input("BookSearch")
  /\ UNCHANGED route

\* recognition.onerror and recognition.onend
onend(failed) ==
  /\ ~effectPending
  /\ bookSearch.isListening
  /\ bookSearch' = [bookSearch EXCEPT
                      !.isListening = FALSE,
                      !.error = IF failed
                                THEN Str("Voice recognition error. Please try again.")
                                ELSE @]
  /\ Input("BookSearch")
  /\ UNCHANGED route

\* the timer of onresult fires: performSearch(transcript)
TimerFires(transcript) ==
  /\ ~effectPending
  /\ transcript \in bookSearch.timers
  /\ bookSearch.issued < MaxListRequests
  /\ bookSearch' = [performSearch(bookSearch, transcript).screen EXCEPT
                      !.timers = @ \ {transcript}]
  /\ Issue(performSearch(bookSearch, transcript).request)
  /\ UNCHANGED route

\* clearSearch: the button exists with a term or after a search, and is
\* disabled while loading
clearSearch ==
  /\ SearchShown
  /\ ~bookSearch.loading
  /\ bookSearch.searchTerm /= <<>> \/ bookSearch.hasSearched
  /\ bookSearch.issued < MaxListRequests
  /\ LET cleared == [bookSearch EXCEPT !.searchTerm = <<>>, !.hasSearched = FALSE,
                                       !.successMessage = ""]
     IN /\ bookSearch' = fetchAllBooks(cleared).screen
        /\ Issue(fetchAllBooks(cleared).request)
  /\ UNCHANGED route

\* BookSearch.bookBook without the isLoggedIn() test
BookSearchBookBookUnguarded ==
  /\ ~effectPending
  /\ route = "/search"
  /\ bookSearch.mounted
  /\ ~bookSearch.bookingLoading
  /\ bookSearch' = [bookSearch EXCEPT !.bookingLoading = TRUE, !.error = Str(""),
                                      !.successMessage = ""]
  /\ Issue(Request("bookBook", "BookSearch.bookBook", bookSearch.searchTerm, 0))
  /\ UNCHANGED route

\* BookSearch.bookBook(bookId) up to its await
BookSearchBookBook ==
  /\ ~effectPending
  /\ route = "/search"
  /\ bookSearch.mounted
  /\ ~bookSearch.bookingLoading
  /\ IF ~isLoggedIn
     THEN /\ route' = "/login"
          /\ Returned("BookSearch.bookBook")
          /\ UNCHANGED bookSearch
     ELSE /\ bookSearch' = [bookSearch EXCEPT !.bookingLoading = TRUE, !.error = Str(""),
                                              !.successMessage = ""]
          /\ Issue(Request("bookBook", "BookSearch.bookBook", bookSearch.searchTerm, 0))
          /\ UNCHANGED route

\* the rest of fetchAllBooks() and of performSearch()
ListAnswer(c, o) ==
  /\ c.via \in ListVias
  /\ Answer(c, o, {})
  /\ LET result == Wrapper(c.op, o)
     IN bookSearch' =
          IF Truthy(result.success)
          THEN [bookSearch EXCEPT
                  !.books = result.data,
                  !.source = c.n,
                  !.error = IF c.op = "searchBooks" /\ result.data = Arr(<<>>)
                            THEN Str("No books found. Try different keywords.") ELSE @,
                  !.loading = FALSE]
          ELSE [bookSearch EXCEPT !.error = result.error, !.books = Arr(<<>>),
                                  !.source = c.n, !.loading = FALSE]
  /\ UNCHANGED route

\* the rest of BookSearch.bookBook: on success the list is fetched again,
\* with the search term of the render that made the call
BookAnswer(c, o) ==
  /\ c.via = "BookSearch.bookBook"
  /\ LET result == Wrapper(c.op, o)
         booked == [bookSearch EXCEPT
                      !.successMessage = "Book booked successfully!"]
         refresh == IF trim(c.term) /= <<>> THEN performSearch(booked, c.term)
                    ELSE fetchAllBooks(booked)
     IN IF Truthy(result.success)
        THEN /\ bookSearch.issued < MaxListRequests
             /\ bookSearch' = [refresh.screen EXCEPT !.bookingLoading = FALSE]
             /\ Answer(c, o, {refresh.request})
        ELSE /\ bookSearch' = [bookSearch EXCEPT !.error = result.error,
                                                 !.bookingLoading = FALSE]
             /\ Answer(c, o, {})
  /\ UNCHANGED route

(* ------------------------------ Dashboard ------------------------------- *)

MaxDashboardCalls == 2

DashboardVias == {"Dashboard.loadDashboardData", "Dashboard.bookBook"}

\* Array.prototype.slice(0, n)
slice(a, n) == Arr(SubSeq(a.items, 1, IF Len(a.items) < n THEN Len(a.items) ELSE n))

\* loadDashboardData() up to its first await
loadDashboardData(d) ==
  [screen |-> [d EXCEPT !.loading = TRUE],
   request |-> Request("getAvailableBooks", "Dashboard.loadDashboardData", <<>>, 0)]

\* the effect of the dashboard, which runs at the mount and whenever the
\* session predicates changed
DashboardEffect ==
  /\ Rendered
  /\ route = "/"
  /\ ~dashboard.mounted \/ dashboard.deps /= Deps
  /\ LET d == [dashboard EXCEPT !.mounted = TRUE, !.deps = Deps]
     IN IF isLoggedIn
        THEN /\ Waiting(DashboardVias) < MaxDashboardCalls
             /\ dashboard' = loadDashboardData(d).screen
             /\ Issue(loadDashboardData(d).request)
        ELSE /\ dashboard' = [d EXCEPT !.loading = FALSE]
             /\ Returned("Dashboard.useEffect")
  /\ UNCHANGED route

\* Dashboard.bookBook(bookId) up to its await
DashboardBookBook ==
  /\ ~effectPending
  /\ route = "/"
  /\ dashboard.mounted
  /\ IF ~isLoggedIn
     THEN /\ route' = "/login"
          /\ Returned("Dashboard.bookBook")
          /\ UNCHANGED dashboard
     ELSE /\ Waiting(DashboardVias) < MaxDashboardCalls
          /\ Issue(Request("bookBook", "Dashboard.bookBook", <<>>, 0))
          /\ UNCHANGED <<dashboard, route>>

\* the rest of Dashboard.bookBook: an alert, and on success the data of the
\* dashboard is loaded again
DashboardBookAnswer(c, o) ==
  /\ c.via = "Dashboard.bookBook"
  /\ IF Truthy(Wrapper(c.op, o).success)
     THEN /\ dashboard' = [loadDashboardData(dashboard).screen EXCEPT !.alert = "success"]
          /\ Answer(c, o, {loadDashboardData(dashboard).request})
     ELSE /\ dashboard' = [dashboard EXCEPT !.alert = "danger"]
          /\ Answer(c, o, {})
  /\ UNCHANGED route

\* the request loadDashboardData() awaits after the answer to c: isLoggedIn()
\* and isAdmin() are those of the render that made the call
FollowingOp(c) ==
  CASE c.op = "getAvailableBooks" ->
         IF c.loggedIn THEN "getUserBookings" ELSE IF c.admin THEN "getAllBooks" ELSE "-"
    [] c.op = "getUserBookings" -> IF c.admin THEN "getAllBooks" ELSE "-"
    [] c.op = "getAllBooks" -> "getAllUsers"
    [] c.op = "getAllUsers" -> "getAllBookings"
    [] OTHER -> "-"

\* the rest of loadDashboardData(), one await at a time; n is 1 once one of
\* the three admin requests failed; the error text names the failed
\* requests, of which the model keeps the fixed part
LoadAnswer(c, o) ==
  /\ c.via = "Dashboard.loadDashboardData"
  /\ LET result == Wrapper(c.op, o)
         failed == IF c.op \in TemplateOps /\ ~Truthy(result.success) THEN 1 ELSE c.n
         loaded == IF c.op = "getAvailableBooks" /\ Truthy(result.success)
                   THEN [dashboard EXCEPT !.availableBooks = slice(result.data, 6)]
                   ELSE dashboard
     IN IF FollowingOp(c) /= "-"
        THEN /\ dashboard' = loaded
             /\ Answer(c, o, {[c EXCEPT !.op = FollowingOp(c), !.n = failed]})
        ELSE /\ dashboard' = [loaded EXCEPT
                                !.error = IF failed = 1 THEN "Failed to load admin data" ELSE "",
                                !.loading = FALSE]
             /\ Answer(c, o, {})
  /\ UNCHANGED route

(* ------------------------------ AdminPanel ------------------------------ *)

MaxFetches == 2
MaxAdminCalls == 1

\* what the admin console renders
AdminRender ==
  IF loading \/ (adminPanel.loading /\ adminPanel.books = Arr(<<>>)) THEN "spinner"
  ELSE IF ~isAdmin THEN "denied"
  ELSE "content"

\* the admin content is on display
AdminContent == Rendered /\ route = "/admin" /\ AdminRender = "content"

\* fetchData() up to its await of the three requests
fetchData(a) ==
  [screen |-> [a EXCEPT !.loading = TRUE, !.error = "", !.fetches = a.fetches + 1],
   requests |-> {Request(op, "AdminPanel.fetchData", <<>>, a.fetches + 1) : op \in TemplateOps}]

\* the effect of the console, which runs at the mount and whenever isAdmin
\* or the loading flag of the session changed
AdminPanelEffect ==
  /\ Rendered
  /\ route = "/admin"
  /\ ~adminPanel.mounted \/ adminPanel.deps /= Deps
  /\ LET a == [adminPanel EXCEPT !.mounted = TRUE, !.deps = Deps]
     IN IF loading
        THEN /\ adminPanel' = a
             /\ Returned("AdminPanel.useEffect")
             /\ UNCHANGED route
        ELSE IF ~isAdmin
        THEN /\ route' = "/"
             /\ adminPanel' = a
             /\ Returned("AdminPanel.useEffect")
        ELSE /\ adminPanel.fetches < MaxFetches
             /\ adminPanel' = fetchData(a).screen
             /\ IssueAll(fetchData(a).requests, "fetchData", "AdminPanel.useEffect")
             /\ UNCHANGED route

\* the answers fetchData() number n has got so far
Gathered(a, n) == {g \in a.gathered : g.n = n}

\* one of the three requests of fetchData() is answered; with the third
\* answer Promise.all resolves and the rest of fetchData() runs
FetchAnswer(c, o) ==
  /\ c.via = "AdminPanel.fetchData"
  /\ Answer(c, o, {})
  /\ LET result == Wrapper(c.op, o)
         a == [adminPanel EXCEPT
                 !.gathered = @ \cup {[n |-> c.n, op |-> c.op, result |-> result]}]
         results == Gathered(a, c.n)
         booksResult == CHOOSE g \in results : g.op = "getAllBooks"
     IN adminPanel' =
          IF {g.op : g \in results} /= TemplateOps THEN a
          ELSE [a EXCEPT
                  !.books = IF Truthy(booksResult.result.success)
                            THEN booksResult.result.data ELSE @,
                  !.error = IF \E g \in results : ~Truthy(g.result.success)
                            THEN "Some data could not be loaded. Please refresh the page."
                            ELSE @,
                  !.loading = FALSE,
                  !.gathered = @ \ results]
  /\ UNCHANGED route

\* deleteBook, deleteUser and returnBook up to their await
AdminOps == {"deleteBook", "deleteUser", "adminReturnBook"}
AdminHandlers == {"AdminPanel.handler", "AdminPanel.updateBookQuantity"}

AdminCall(op) ==
  /\ AdminContent
  /\ adminPanel.books /= Arr(<<>>)
  /\ Waiting(AdminHandlers) < MaxAdminCalls
  /\ Issue(Request(op, "AdminPanel.handler", <<>>, 0))
  /\ UNCHANGED <<adminPanel, route>>

\* updateBookQuantity(bookId, newQuantity) up to its await
updateBookQuantity ==
  /\ AdminContent
  /\ adminPanel.books /= Arr(<<>>)
  /\ Waiting(AdminHandlers) < MaxAdminCalls
  /\ Issue(Request("updateBookQuantity", "AdminPanel.updateBookQuantity", <<>>, 0))
  /\ UNCHANGED <<adminPanel, route>>

SuccessText(op) ==
  CASE op = "deleteBook" -> "Book deleted successfully!"
    [] op = "deleteUser" -> "User deleted successfully!"
    [] op = "adminReturnBook" -> "Book return processed successfully!"
    [] OTHER -> "Book quantity updated successfully!"

\* the rest of deleteBook, deleteUser, returnBook (fetchData() after a
\* success) and of updateBookQuantity (fetchData() after a failure)
AdminAnswer(c, o) ==
  /\ c.via \in AdminHandlers
  /\ LET result == Wrapper(c.op, o)
         refetch == Truthy(result.success) = (c.via = "AdminPanel.handler")
         a == IF Truthy(result.success)
              THEN [adminPanel EXCEPT !.successMessage = SuccessText(c.op)]
              ELSE [adminPanel EXCEPT !.error = StringOf(result.error)]
     IN IF refetch
        THEN /\ adminPanel.fetches < MaxFetches
             /\ adminPanel' = fetchData(a).screen
             /\ Answer(c, o, fetchData(a).requests)
        ELSE /\ adminPanel' = a
             /\ Answer(c, o, {})
  /\ UNCHANGED route

(* --------------------------- the routed screens ------------------------- *)

Routes == {"/search", "/", "/admin"}

NextScreens ==
  \/ initializeAuth /\ UNCHANGED screens
  \/ Rendered /\ Logout /\ UNCHANGED screens
  \/ BookSearchMount /\ UNCHANGED <<form, dashboard, adminPanel>>
  \/ \E t \in SearchTerms : SetSearchTerm(t) /\ UNCHANGED <<form, dashboard, adminPanel>>
  \/ handleSearch /\ UNCHANGED <<form, dashboard, adminPanel>>
  \/ startListening /\ UNCHANGED <<form, dashboard, adminPanel>>
  \/ \E t \in Transcripts : onresult(t) /\ UNCHANGED <<form, dashboard, adminPanel>>
  \/ \E failed \in BOOLEAN : onend(failed) /\ UNCHANGED <<form, dashboard, adminPanel>>
  \/ \E t \in Transcripts : TimerFires(t) /\ UNCHANGED <<form, dashboard, adminPanel>>
  \/ clearSearch /\ UNCHANGED <<form, dashboard, adminPanel>>
  \/ BookSearchBookBook /\ UNCHANGED <<form, dashboard, adminPanel>>
  \/ \E c \in DOMAIN inflight : \E o \in ScreenOutcomes(c.op) :
       ListAnswer(c, o) /\ UNCHANGED <<form, dashboard, adminPanel>>
  \/ \E c \in DOMAIN inflight : \E o \in ScreenOutcomes(c.op) :
       BookAnswer(c, o) /\ UNCHANGED <<form, dashboard, adminPanel>>
  \/ DashboardEffect /\ UNCHANGED <<form, bookSearch, adminPanel>>
  \/ DashboardBookBook /\ UNCHANGED <<form, bookSearch, adminPanel>>
  \/ \E c \in DOMAIN inflight : \E o \in ScreenOutcomes(c.op) :
       DashboardBookAnswer(c, o) /\ UNCHANGED <<form, bookSearch, adminPanel>>
  \/ \E c \in DOMAIN inflight : \E o \in ScreenOutcomes(c.op) :
       LoadAnswer(c, o) /\ UNCHANGED <<form, bookSearch, adminPanel>>
  \/ AdminPanelEffect /\ UNCHANGED <<form, bookSearch, dashboard>>
  \/ \E op \in AdminOps : AdminCall(op) /\ UNCHANGED <<form, bookSearch, dashboard>>
  \/ updateBookQuantity /\ UNCHANGED <<form, bookSearch, dashboard>>
  \/ \E c \in DOMAIN inflight : \E o \in ScreenOutcomes(c.op) :
       FetchAnswer(c, o) /\ UNCHANGED <<form, bookSearch, dashboard>>
  \/ \E c \in DOMAIN inflight : \E o \in ScreenOutcomes(c.op) :
       AdminAnswer(c, o) /\ UNCHANGED <<form, bookSearch, dashboard>>

\* the browser opens one of the routes, with no session kept, or with the
\* session of a user or of an administrator
ScreenStorages ==
  {EmptyStorage}
    \cup {[token |-> "t1", userInfo |-> JSONstringify(Obj(Str("alice"), r))] : r \in Roles}

InitScreens ==
  /\ SessionInit
  /\ storage \in ScreenStorages
  /\ \E r \in Routes : ScreensInit(r)

SpecScreens == InitScreens /\ [][NextScreens]_vars

(* ------------------------------ claims --------------------------------- *)

\* A token, a user or a stored text is present when it is a value the code
\* accepts as one: not null, not undefined, and not the empty values "" and 0
\* that every test of the code (`if (token)`, `!!currentUser`) treats alike.
Held(v) == v \notin {Null, Undef, Str(""), Num(0)}

\* C1: in every reachable state isLoggedIn() is true if and only if the
\* in-memory token and the in-memory currentUser are both present; it is
\* never true with only one of the two.
C1_LoggedInIffBoth == isLoggedIn <=> (Held(token) /\ Held(currentUser))

\* the hydration left a token without a user, and isLoggedIn() is false
C1_Witness ==
  /\ last.ev = "hydrate"
  /\ Held(token)
  /\ ~Held(currentUser)
  /\ ~isLoggedIn

\* C2: when logout() returns, whatever the state before, both storage keys
\* are absent, the in-memory token and currentUser are absent, and no
\* request was sent.
C2_LogoutTotal ==
  [][last'.ev = "logout" =>
       /\ DOMAIN storage' = {}
       /\ token' = Null
       /\ currentUser' = Null
       /\ inflight' = inflight]_vars

\* logout() was called with a token and no user in memory and both keys stored
C2_Witness ==
  /\ last.ev = "logout"
  /\ Held(last.before.token)
  /\ ~Held(last.before.currentUser)
  /\ DOMAIN last.before.storage = Keys
  /\ DOMAIN storage = {}

\* the effect found a token and a userInfo text that JSON.parse rejects
CorruptBlob(snap) ==
  /\ Held(getItem(snap.storage, "token"))
  /\ Held(getItem(snap.storage, "userInfo"))
  /\ JSONparse(snap.storage["userInfo"]) = SyntaxError

TransportFailed == last.ev = "settle" /\ ~last.outcome.fulfilled

\* C4: every public method of the gateway, post and get included, resolves
\* with success false and an error when the HTTP call fails; none rejects.
C4_GatewayNeverThrows ==
  TransportFailed =>
     /\ last.gw.settled = "resolved"
     /\ last.gw.success = False
     /\ Held(last.gw.error)

\* the answer just handled had status 401
Answered401 ==
  /\ last.ev = "settle"
  /\ last.outcome.response
  /\ last.outcome.status = Num(401)

\* C5: for every gateway operation a 401 response removes both storage keys
\* and assigns the login location exactly once for that call; an answer
\* with any other status, and a failure without response, removes no key
\* and navigates nowhere.
C5_EvictionOn401Only ==
  last.ev = "settle" =>
     IF Answered401
     THEN /\ last.navs = 1
          /\ navPending
          /\ DOMAIN storage = {}
     ELSE /\ last.navs = 0
          /\ DOMAIN last.before.storage \subseteq DOMAIN storage

\* a 401 arrived while both keys were stored
C5_Witness ==
  /\ Answered401
  /\ last.op = "deleteUser"
  /\ DOMAIN last.before.storage = Keys
  /\ DOMAIN storage = {}
  /\ last.navs = 1

\* login() got a 200 whose body has a token, a username and a role
LoginSucceeded ==
  /\ last.ev = "settle"
  /\ last.via = "login"
  /\ last.outcome.fulfilled
  /\ last.outcome.data.type = "object"
  /\ Held(last.outcome.data.token)
  /\ last.outcome.data.username /= Undef
  /\ last.outcome.data.role /= Undef

\* C6: after a successful gateway login with payload {token, username, role}
\* storage holds the token under 'token' and the JSON text of
\* {username, role} under 'userInfo', the in-memory token and currentUser
\* are these values, login() returned {success: true}, and isLoggedIn() is
\* true.
C6_LoginSuccess ==
  LoginSucceeded =>
     LET body == last.outcome.data
         userInfo == Obj(body.username, body.role)
     IN /\ DOMAIN storage = Keys
        /\ storage["token"] = body.token.str
        /\ storage["userInfo"] = JSONstringify(userInfo)
        /\ JSONparse(storage["userInfo"]) = userInfo
        /\ token = body.token
        /\ currentUser = userInfo
        /\ last.ret = SuccessOnly
        /\ isLoggedIn

\* the login of alice with token t1: the stored texts are the expected ones
C6_Witness ==
  /\ LoginSucceeded
  /\ storage["token"] = "t1"
  /\ storage["userInfo"] = "{\"username\":\"alice\",\"role\":\"ROLE_USER\"}"
  /\ currentUser.role = Str("ROLE_USER")
  /\ isLoggedIn

\* login() got the gateway's failure result
LoginFailed ==
  /\ last.ev = "settle"
  /\ last.via = "login"
  /\ last.gw.success = False

\* C7, as claimed: on a gateway failure of any status, 401 included, login()
\* returns the gateway's result and the in-memory token, the in-memory
\* currentUser and both storage keys are as before the call.
C7_FailureChangesNothing ==
  LoginFailed =>
     /\ last.ret = last.gw
     /\ token = last.before.token
     /\ currentUser = last.before.currentUser
     /\ storage = last.before.storage

\* C7, amended: on a gateway failure login() returns the gateway's result
\* and the in-memory token and currentUser are as before; the storage keys
\* are as before unless the answer was a 401, which removes both.
C7_FailureKeepsMemory ==
  LoginFailed =>
     /\ last.ret = last.gw
     /\ token = last.before.token
     /\ currentUser = last.before.currentUser
     /\ storage = IF Answered401 THEN EmptyStorage ELSE last.before.storage

\* a login was refused with 401 while a session was held
C7_Witness ==
  /\ LoginFailed
  /\ Answered401
  /\ Held(token)
  /\ Held(currentUser)
  /\ DOMAIN last.before.storage = Keys
  /\ DOMAIN storage = {}

\* register() has returned
RegisterReturned == last.via = "register" /\ last.ev \in {"settle", "return"}

\* C8, as claimed: register() changes neither the in-memory token, nor the
\* in-memory currentUser, nor a storage key, on success and on failure; it
\* returns the gateway's failure result unchanged, and {success: true} on
\* success.
C8_RegisterChangesNothing ==
  RegisterReturned =>
     /\ token = last.before.token
     /\ currentUser = last.before.currentUser
     /\ storage = last.before.storage
     /\ last.gw.success = False => last.ret = last.gw
     /\ last.gw.success = True => last.ret = SuccessOnly

\* C8, amended: as claimed, except that a 401 answer to the register
\* request removes both storage keys.
C8_RegisterKeepsMemory ==
  RegisterReturned =>
     /\ token = last.before.token
     /\ currentUser = last.before.currentUser
     /\ storage = IF Answered401 THEN EmptyStorage ELSE last.before.storage
     /\ last.gw.success = False => last.ret = last.gw
     /\ last.gw.success = True => last.ret = SuccessOnly

\* a registration succeeded while a session was held, and the session is
\* the one held before
C8_Witness ==
  /\ RegisterReturned
  /\ last.gw.success = True
  /\ last.ret = SuccessOnly
  /\ isLoggedIn
  /\ DOMAIN storage = Keys

ListOperations ==
  {"getAvailableBooks", "searchBooks", "getUserBookings", "getActiveBookings",
   "getAllBooks", "getAllUsers", "getAllBookings"}

\* C10: every list operation that returns success false returns the empty
\* sequence as data.
C10_ListFailureEmptyData ==
  (last.ev = "settle" /\ last.op \in ListOperations /\ last.gw.success /= True) =>
     /\ last.gw.settled = "resolved"
     /\ last.gw.data = Arr(<<>>)

\* the list of all bookings failed with a 500
C10_Witness ==
  /\ last.ev = "settle"
  /\ last.op = "getAllBookings"
  /\ last.outcome.status = Num(500)
  /\ last.gw.success = False
  /\ last.gw.data = Arr(<<>>)

\* a gateway method returned its failure result
ReturnedFailure == last.ev = "settle" /\ last.gw.success = False

\* C11: the error of every failure result is the server payload unchanged
\* when the failed response carries one, and otherwise the fixed text of the
\* operation, with nothing of the raw exception in it.
C11_ErrorIsPayloadOrFallback ==
  ReturnedFailure =>
     last.gw.error = IF last.outcome.response /\ Held(last.outcome.data)
                     THEN last.outcome.data
                     ELSE Str(Fallback(last.op))

\* the effect of the mount has not run yet
Hydrating == last.ev = "mount"

\* a login() or register() call has just started, has just ended
SessionCallStarted == last.ev = "send" /\ last.via \in {"login", "register"}
SessionCallEnded == last.ev \in {"settle", "return"} /\ last.via \in {"login", "register"}

\* C12, as claimed: loading is true whenever at least one login or register
\* call is in flight, every such call ends with loading false, and loading
\* is never true when neither hydration nor such a call is in progress.
C12_LoadingWhileInFlight ==
  /\ InFlight(FALSE) > 0 => loading
  /\ SessionCallEnded => ~loading
  /\ loading => (Hydrating \/ InFlight(FALSE) > 0)

\* C12, amended: every login or register call sets loading when it starts
\* and clears it when it ends; while calls are in flight loading is cleared
\* only by the end of one of them or by a run of the token effect; loading
\* is never true when neither hydration nor such a call is in progress.
C12_LoadingPerCall ==
  /\ []((SessionCallStarted => loading)
        /\ (SessionCallEnded => ~loading)
        /\ (loading => (Hydrating \/ InFlight(FALSE) > 0)))
  /\ [][(InFlight(FALSE) > 0 /\ loading /\ ~loading') =>
          \/ last'.ev = "hydrate"
          \/ last'.ev \in {"settle", "return"} /\ last'.via \in {"login", "register"}]_vars

\* one of two calls has ended: loading is false and the other still waits
C12_Witness ==
  /\ SessionCallEnded
  /\ last.ev = "settle"
  /\ InFlight(FALSE) > 0
  /\ ~loading

\* the effect of the mount has just run: hydration is complete
HydrationCompleted == last.ev = "hydrate" /\ last.op = "first"

\* the stored userInfo text exists and JSON.parse accepts it
ParsedWithoutError(snap) ==
  /\ "userInfo" \in DOMAIN snap.storage
  /\ JSONparse(snap.storage["userInfo"]) /= SyntaxError

\* C13: whatever storage holds at application start, the state when
\* hydration completes is AUTHENTICATED (token and currentUser both present)
\* or ANONYMOUS (both absent), and currentUser is present exactly when the
\* token is present and the stored user blob parsed without error.
C13_HydrationTwoStates ==
  HydrationCompleted =>
     /\ Held(token) <=> Held(currentUser)
     /\ Held(currentUser) <=>
          (Held(getItem(last.before.storage, "token")) /\ ParsedWithoutError(last.before))

\* C14: whatever storage holds, hydration terminates with loading false, and
\* loading then stays false until a login or register call starts (or the
\* page is loaded again, which starts the next hydration).
C14_HydrationTerminates ==
  /\ Hydrating ~> (HydrationCompleted /\ ~loading)
  /\ [][(~loading /\ loading') => (SessionCallStarted' \/ Hydrating')]_vars

\* hydration has completed on its exceptional path, and loading is false
C14_Witness ==
  /\ HydrationCompleted
  /\ CorruptBlob(last.before)
  /\ ~loading

\* the two keys exist together or not at all
Lockstep(st) == DOMAIN st \in {{}, Keys}

\* C15: from storage in which the keys token and userInfo are both present
\* or both absent, every completed login, logout, register or 401 eviction
\* (and every other step) leaves them both present or both absent; exactly
\* one key is found only between the two writes inside login().
C15_KeysInLockstep == [][Lockstep(storage) => Lockstep(storage')]_vars

\* a login has written both keys into storage that held neither
C15_Witness ==
  /\ last.ev = "settle"
  /\ last.via = "login"
  /\ DOMAIN last.before.storage = {}
  /\ DOMAIN storage = Keys

\* login() threw after its gateway call: the gateway reported success with
\* a body that cannot be destructured
LoginThrew ==
  /\ last.ev = "settle"
  /\ last.via = "login"
  /\ last.gw.success = True
  /\ last.gw.data \in {Null, Undef}

\* C16: when an exception is raised inside login() after the gateway call
\* was issued, login() returns {success: false, error: 'An unexpected error
\* occurred during login'} and the in-memory token, the in-memory
\* currentUser and both storage keys are as they were before.
C16_LoginThrowChangesNothing ==
  LoginThrew =>
     /\ last.ret = UnexpectedLogin
     /\ last.ret.success = False
     /\ last.ret.error = Str("An unexpected error occurred during login")
     /\ storage = last.before.storage
     /\ token = last.before.token
     /\ currentUser = last.before.currentUser

\* login() threw while a session was held, and the session is still held
C16_Witness ==
  /\ LoginThrew
  /\ Held(token)
  /\ Held(currentUser)
  /\ DOMAIN storage = Keys

\* logout() has just returned
LoggedOutNow == last.ev = "logout"

\* the snapshot is a state that logout() leaves
AlreadyLoggedOut(snap) ==
  /\ DOMAIN snap.storage = {}
  /\ snap.token = Null
  /\ snap.currentUser = Null

\* C17: logout() is idempotent: a second call right after the first, or a
\* call made when already logged out, leaves the storage and the in-memory
\* session that one call leaves.
C17_LogoutIdempotent ==
  LoggedOutNow =>
     /\ logout(storage) = Snapshot
     /\ logout(logout(last.before.storage).storage) = logout(last.before.storage)
     /\ AlreadyLoggedOut(last.before) => Snapshot = last.before

\* logout() was called in a state that logout() had left
C17_Witness ==
  /\ LoggedOutNow
  /\ AlreadyLoggedOut(last.before)
  /\ AlreadyLoggedOut(Snapshot)

\* the four predicates have just been called
PredicatesRead == last.ev = "read"

\* C18: isAdmin() is true exactly when currentUser exists and its role is
\* the admin role, isUser() exactly when currentUser exists and its role is
\* the user role, getUserDisplayName() returns currentUser.username, or
\* 'Guest' when no user is present; calling the four predicates changes
\* neither the in-memory session nor storage.
C18_PredicatesPure ==
  PredicatesRead =>
     /\ last.ret.isAdmin <=>
          (Held(currentUser) /\ Member(currentUser, "role") = Str("ROLE_ADMIN"))
     /\ last.ret.isUser <=>
          (Held(currentUser) /\ Member(currentUser, "role") = Str("ROLE_USER"))
     /\ ~Held(currentUser) => last.ret.getUserDisplayName = Str("Guest")
     /\ (Held(currentUser) /\ Held(Member(currentUser, "username"))) =>
          last.ret.getUserDisplayName = Member(currentUser, "username")
     /\ last.ret.getUserDisplayName \in {Member(currentUser, "username"), Str("Guest")}
     /\ Snapshot = last.before

\* the predicates were read for an administrator with a name
C18_Witness ==
  /\ PredicatesRead
  /\ last.ret.isAdmin
  /\ ~last.ret.isUser
  /\ last.ret.getUserDisplayName = Str("alice")

\* the page has been loaded again after a 401 assigned the login location
RehydratedAfterEviction == HydrationCompleted /\ last.navs = 1

\* C19: when a gateway operation receives a 401, storage is cleared and the
\* login location assigned by the time the result is delivered, the
\* operation resolves with success false (and data [] for the list
\* operations), and when the navigation has loaded the page again the
\* session is ANONYMOUS.
C19_EvictionThenFailure ==
  /\ Answered401 =>
       /\ DOMAIN storage = {}
       /\ last.navs = 1
       /\ last.gw.settled = "resolved"
       /\ last.gw.success = False
       /\ last.op \in ListOperations => last.gw.data = Arr(<<>>)
  /\ RehydratedAfterEviction =>
       /\ ~Held(token)
       /\ ~Held(currentUser)

\* C20: the provider renders its children only in states where loading is
\* false: none is rendered during hydration or while a login or register
\* call is in flight.
C20_ChildrenOnlyWhenIdle ==
  childrenRendered =>
     /\ ~loading
     /\ ~Hydrating
     /\ InFlight(FALSE) = 0

\* C20, amended: the provider renders its children exactly in the states
\* where loading is false: none is rendered during hydration, nor from the
\* start of a login or register call until loading is cleared.
C20_ChildrenOnlyWhenNotLoading ==
  /\ childrenRendered <=> ~loading
  /\ Hydrating => ~childrenRendered
  /\ SessionCallStarted => ~childrenRendered

\* a login or register call has started and the children are not rendered
C20_Witness ==
  /\ SessionCallStarted
  /\ InFlight(FALSE) > 0
  /\ ~childrenRendered

\* a request was added to the requests in flight
RequestSent == BagCardinality(inflight') > BagCardinality(inflight)

\* validateForm of the screen that is shown returns true
FormValid ==
  \/ form.screen = "login" /\ LoginValidateForm(form) = ""
  \/ form.screen = "register" /\ NoErrors(RegisterValidateForm(form))

\* C21: a Register or Login submission whose input fails validation makes
\* no call to the session manager and sends no request; register() and
\* login() are called only after validateForm returned true.
C21_InvalidFormNoCall ==
  [][/\ (last'.ev = "rejected") =>
          /\ ~FormValid
          /\ inflight' = inflight
          /\ UNCHANGED <<storage, token, currentUser, loading>>
     /\ (RequestSent \/ (loading' /\ ~loading)) => FormValid
     /\ (form.screen \in {"login", "register"} /\ ~FormValid) => ~RequestSent]_vars

\* a Register submission has been rejected for its username, nothing in flight
C21_Witness ==
  /\ last.ev = "rejected"
  /\ form.screen = "register"
  /\ form.errors.username /= ""
  /\ inflight = EmptyBag
  /\ ~loading

\* the Login form has called login() in this step
LoginFormCalled == form.screen = "login" /\ RequestSent

\* C29: every username the Login form passes to login() has at least 3
\* characters and is not empty after trimming, every password passed is not
\* blank, and an input these rules reject never produces a login call.
C29_LoginArgumentsValid ==
  [][LoginFormCalled =>
       /\ Len(form'.passed[1]) >= 3
       /\ trim(form'.passed[1]) /= <<>>
       /\ trim(form'.passed[2]) /= <<>>
       /\ Len(form.username) >= 3
       /\ trim(form.username) /= <<>>
       /\ trim(form.password) /= <<>>]_vars

\* the effect has run again, after the run that followed the mount
HydrationRepeated == last.ev = "hydrate" /\ last.op = "rerun"

\* C22: the hydration step runs exactly once per application start; after
\* it has completed, the in-memory token and currentUser change only
\* through a successful login or through logout, and storage is not read
\* again.
C22_HydrationRunsOnce ==
  /\ [](~HydrationRepeated)
  /\ [][(token' /= token \/ currentUser' /= currentUser) =>
          \/ last'.ev = "mount"
          \/ last'.ev = "hydrate" /\ last'.op = "first"
          \/ last'.ev = "logout"
          \/ LoginSucceeded']_vars

\* the login bodies with a non-empty token, username and role
CompleteBodies ==
  {b \in LoginBodies \ {Null} : Held(b.token) /\ Held(b.username) /\ Held(b.role)}

\* the storage a successful login leaves
WrittenBy(body) ==
  [token |-> body.token.str,
   userInfo |-> JSONstringify(Obj(body.username, body.role))]

\* C23: the storage written by a login that succeeded with a non-empty
\* token, username and role, when a fresh application start hydrates from
\* it, gives the AUTHENTICATED state with the same token and a currentUser
\* equal to the {username, role} of the login.
C23_StorageRoundTrip ==
  /\ (LoginSucceeded /\ last.outcome.data \in CompleteBodies) =>
        storage = WrittenBy(last.outcome.data)
  /\ \A body \in CompleteBodies :
        (HydrationCompleted /\ last.before.storage = WrittenBy(body)) =>
           /\ token = body.token
           /\ currentUser = Obj(body.username, body.role)
           /\ isLoggedIn

\* the page was loaded again on the storage a login with token t2 wrote
C23_Witness ==
  /\ HydrationCompleted
  /\ last.before.storage = WrittenBy(Payload(Str("t2"), Str("alice"), Str("ROLE_USER")))
  /\ token = Str("t2")
  /\ Held(currentUser)

\* a login call is in flight
LoginInFlight == \E c \in DOMAIN inflight : c.via = "login"

\* logout() has run while a login call was in flight, and the effect that a
\* change of token schedules has run too
LoggedOutDuringLogin ==
  /\ LoginInFlight
  /\ ~effectPending
  /\ AlreadyLoggedOut(Snapshot)
  /\ \/ last.ev = "logout"
     \/ HydrationRepeated /\ AlreadyLoggedOut(last.before)

\* C24: login and logout are not mutually exclusive and the last writer
\* wins: when logout() runs while a login call is in flight and that login
\* then succeeds, the state after both is AUTHENTICATED with the login's
\* token and user in memory and in storage; within one login call loading
\* is set, the request is sent, the session is updated and loading is
\* cleared, in that order.
C24_LastWriterWins ==
  /\ [][(LoggedOutDuringLogin /\ LoginSucceeded' /\ last'.outcome.data \in CompleteBodies) =>
          /\ token' = last'.outcome.data.token
          /\ currentUser' = Obj(last'.outcome.data.username, last'.outcome.data.role)
          /\ storage' = WrittenBy(last'.outcome.data)
          /\ isLoggedIn']_vars
  /\ [][(LoginSucceeded /\ last.outcome.data \in CompleteBodies /\ last'.ev = "hydrate") =>
          UNCHANGED <<storage, token, currentUser>>]_vars
  /\ [][(last'.ev = "send" /\ last'.via = "login" /\ inflight' /= inflight) =>
          /\ loading'
          /\ UNCHANGED <<storage, token, currentUser>>]_vars
  /\ []((last.ev = "settle" /\ last.via = "login") => ~loading)

\* logout() has ended a held session while a login call waits for its
\* answer, and the effect has run on the cleared token
C24_Witness ==
  /\ LoggedOutDuringLogin
  /\ HydrationRepeated
  /\ DOMAIN storage = {}

\* C25: in every reachable state outside a running login call the in-memory
\* token equals the token held in storage, so that whenever isLoggedIn() is
\* true the next gateway request carries the Authorization header; this
\* holds in particular between a 401 eviction and the completion of the
\* forced navigation.
C25_MemoryEqualsStorage ==
  /\ ~LoginInFlight => token = getItem(storage, "token")
  /\ (navPending /\ ~LoginInFlight) => token = getItem(storage, "token")
  /\ (last.ev = "send" /\ isLoggedIn) => last.hdr = Str("Bearer " \o StringOf(token))

\* C26: on the book search screen, once no list request (initial fetch,
\* search, voice search, refresh after a booking, clear) is in flight the
\* list on display is the answer to the request issued last, and loading is
\* true as long as a list request is in flight.
C26_LatestListShown ==
  /\ (ListsInFlight = 0 /\ bookSearch.issued > 0) => bookSearch.source = bookSearch.issued
  /\ ListsInFlight > 0 => bookSearch.loading

\* the step is a call of bookBook on the search screen or on the dashboard
BookingAttempted ==
  /\ last'.ev \in {"send", "return"}
  /\ last'.via \in {"BookSearch.bookBook", "Dashboard.bookBook"}

\* C28: a call of bookBook while isLoggedIn() is false sends no request, so
\* none to the create-booking operation: on the search screen and on the
\* dashboard it navigates to '/login' and leaves the error, success and
\* loading state of the screen as it was.
C28_BookingNeedsLogin ==
  [][(BookingAttempted /\ ~isLoggedIn) =>
       /\ route' = "/login"
       /\ last'.ev = "return"
       /\ inflight' = inflight
       /\ bookSearch'.error = bookSearch.error
       /\ bookSearch'.successMessage = bookSearch.successMessage
       /\ bookSearch'.loading = bookSearch.loading
       /\ bookSearch'.bookingLoading = bookSearch.bookingLoading
       /\ dashboard'.error = dashboard.error
       /\ dashboard'.alert = dashboard.alert
       /\ dashboard'.loading = dashboard.loading]_vars

\* a visitor who is not logged in called bookBook on the search screen
\* while its list was on display
C28_Witness ==
  /\ last.ev = "return"
  /\ last.via = "BookSearch.bookBook"
  /\ ~isLoggedIn
  /\ route = "/login"
  /\ bookSearch.books /= Arr(<<>>)

\* the step sends a request for the data of the admin console
AdminDataRequested ==
  \E c \in DOMAIN inflight' :
     /\ c.via = "AdminPanel.fetchData"
     /\ c \notin DOMAIN inflight

\* the step is a run of the effect of the admin console
AdminEffectRan ==
  /\ route = "/admin"
  /\ adminPanel'.mounted
  /\ adminPanel'.deps = Deps
  /\ ~adminPanel.mounted \/ adminPanel.deps /= Deps

\* C27: the admin console requests getAllBooks, getAllUsers and
\* getAllBookings only while the session is not loading and isAdmin() is
\* true; its effect, run while the session is not loading and isAdmin() is
\* false, navigates to '/' and requests nothing; and the admin content is
\* never rendered for a user who is not an administrator.
C27_AdminDataOnlyForAdmin ==
  [][/\ AdminDataRequested => (~loading /\ isAdmin)
     /\ (AdminEffectRan /\ ~loading /\ ~isAdmin) =>
          (route' = "/" /\ ~AdminDataRequested)
     /\ AdminRender = "content" => isAdmin
     /\ AdminRender' = "content" => isAdmin']_vars

====
